---- MODULE Spec2Model ----
(***************************************************************************)
(* Model of the graph auto-encoder components of knowledge_gae:             *)
(*   src/model.py          get_model, LinearClassifier, InnerProductDecoder,*)
(*                         RGCNEncoder, MLPEncoder, DistMultDecoder,        *)
(*                         HetDistMultDecoder                               *)
(*   src/gae/optimizer.py  loss_function                                    *)
(*                                                                          *)
(* Tensors are records [shape, v]: v maps index tuples to numbers.  Inputs  *)
(* are integer valued, so sums and products are exact (as they are for      *)
(* float tensors holding small integers); sigmoid, exp and log1p(exp(-x))   *)
(* are rounded to a grid of 1/Scale, and values behind them are fixed-point *)
(* numbers in units of 1/Scale.                                             *)
(***************************************************************************)
EXTENDS Integers, Sequences, FiniteSets, TLC

VARIABLES
    model,   \* the module object the caller currently holds (NoModel: none)
    op,      \* the last operation called
    inp,     \* its arguments
    status,  \* "ok", or the name of the exception it raised
    out,     \* its return value
    trace    \* the tensor operations it performed, in order

vars == <<model, op, inp, status, out, trace>>

(***************************************************************************)
(* Bounds of the model.                                                     *)
(***************************************************************************)
MaxNodes == 2       \* nodes of a batch
MaxDim == 2         \* latent / hidden width
MaxRelations == 2   \* num_relations ranges over 1..MaxRelations
MaxEdges == 2       \* edges of an edge index

(***************************************************************************)
(* Program constants.                                                       *)
(***************************************************************************)
LabelChannels == 10     \* labels.unsqueeze(2).repeat(1, 1, 10)
RGCNInChannels == 300   \* RGCNEncoder.in_channels
RGCNDropout == 2        \* p=0.2, in tenths

(***************************************************************************)
(* Numbers.  Scale is the resolution of the rounded functions.              *)
(***************************************************************************)
Scale == 10

RECURSIVE Sum(_, _)
Sum(f, n) == IF n = 0 THEN 0 ELSE f[n] + Sum(f, n - 1)

Abs(x) == IF x < 0 THEN -x ELSE x
Max(a, b) == IF a < b THEN b ELSE a

\* round(Scale * sigmoid(x / Scale)): the number of thresholds x has reached.
SigmoidThresholds == <<-29, -17, -10, -6, -2, 3, 7, 11, 18, 30>>
sigmoid(x) == Cardinality({k \in 1..Scale : SigmoidThresholds[k] <= x})

\* round(Scale * exp(x / Scale)) for x in -30..30.
ExpTable == <<0, 1, 1, 1, 1, 1, 1, 1, 1, 1, 1, 1, 2, 2, 2, 2, 2, 3, 3, 3, 4,
              4, 4, 5, 5, 6, 7, 7, 8, 9, 10, 11, 12, 13, 15, 16, 18, 20, 22,
              25, 27, 30, 33, 37, 41, 45, 50, 55, 60, 67, 74, 82, 90, 100,
              110, 122, 135, 149, 164, 182, 201>>
exp(x) == ExpTable[x + 31]

\* round(Scale * ln(1 + exp(-a / Scale))) for a >= 0.
Log1pExpThresholds == <<29, 18, 12, 8, 5, 3, 0>>
log1p_exp_neg(a) == Cardinality({k \in 1..7 : a <= Log1pExpThresholds[k]})

(***************************************************************************)
(* Tensors.                                                                 *)
(***************************************************************************)
Indices(shape) ==
    IF Len(shape) = 1 THEN {<<i>> : i \in 1..shape[1]}
    ELSE IF Len(shape) = 2
         THEN {<<i, j>> : i \in 1..shape[1], j \in 1..shape[2]}
         ELSE {<<i, j, k>> : i \in 1..shape[1], j \in 1..shape[2], k \in 1..shape[3]}

\* a tensor of the given shape with elements f[idx]
\* (f @@ <<>> is f; it makes TLC compute the function once, not at each use)
Tensor(shape, f) == [shape |-> shape, v |-> (f @@ <<>>)]

NoTensor == [shape |-> <<>>, v |-> <<>>]

Front(s) == SubSeq(s, 1, Len(s) - 1)
Last(s) == s[Len(s)]

relu(t) == Tensor(t.shape, [idx \in Indices(t.shape) |-> Max(t.v[idx], 0)])
Sigmoid(t) == Tensor(t.shape, [idx \in Indices(t.shape) |-> sigmoid(t.v[idx])])

(***************************************************************************)
(* Python values passed to constructors: the configuration object `args`,   *)
(* the graph object `data`, and plain integers.                             *)
(***************************************************************************)
DropoutRates == {0, 5, 10}      \* args.dropout in tenths: 0.0, 0.5, 1.0
\* args.num_classes: small ones, and those around the label channel count
ClassCounts == {1, LabelChannels - 1, LabelChannels, LabelChannels + 1}
Seeds == 0..1                   \* outcome of the random parameter initialisation

PyArgs(name, hidden_dim, dropout, num_classes) ==
    [kind |-> "args", model |-> name, hidden_dim |-> hidden_dim,
     dropout |-> dropout, num_classes |-> num_classes]

\* has_x = FALSE is data.x = None
PyData(has_x, num_nodes) == [kind |-> "data", has_x |-> has_x, num_nodes |-> num_nodes]

PyInt(n) == [kind |-> "int", n |-> n]

Raise(exc) == [status |-> exc, obj |-> [cls |-> "None"]]
Return(obj) == [status |-> "ok", obj |-> obj]

NoModel == [cls |-> "None"]

(***************************************************************************)
(* Learnable parameters.  Their initial values are random in the program;   *)
(* here a seed picks one of a few integer patterns.                         *)
(***************************************************************************)
Weight(seed, layer, o, k) == ((seed + layer + 2 * o + 3 * k) % 5) - 2
Bias(seed, layer, o) == ((seed + 2 * layer + o) % 3) - 1

(***************************************************************************)
(* Constructors (the __init__ methods).                                     *)
(***************************************************************************)
LinearClassifier_init(args, seed) ==
    IF args.kind # "args" THEN Raise("AttributeError")
    ELSE Return([cls |-> "LinearClassifier", training |-> TRUE,
                 hidden_dim |-> args.hidden_dim, dropout |-> args.dropout,
                 num_classes |-> args.num_classes, seed |-> seed])

InnerProductDecoder_init(args, seed) ==
    IF args.kind # "args" THEN Raise("AttributeError")
    ELSE Return([cls |-> "InnerProductDecoder", training |-> TRUE,
                 dropout |-> args.dropout, num_classes |-> args.num_classes,
                 classifier |-> LinearClassifier_init(args, seed).obj])

RGCNNumBlocks == 5

RGCNEncoder_init(num_nodes, hidden_channels, num_relations, seed) ==
    IF hidden_channels.kind # "int" \/ num_relations.kind # "int"
    THEN Raise("TypeError")
    ELSE Return([cls |-> "RGCNEncoder", training |-> TRUE,
                 in_channels |-> RGCNInChannels,
                 hidden_channels |-> hidden_channels.n,
                 num_relations |-> num_relations.n, seed |-> seed])

\* self.featureless and self.node_embeddings are set only when data.x is None
MLPEncoder_init(args, data, seed) ==
    IF data.kind # "data" \/ args.kind # "args" THEN Raise("AttributeError")
    ELSE LET base == [cls |-> "MLPEncoder", training |-> TRUE,
                      dropout |-> args.dropout, hidden_dim |-> args.hidden_dim,
                      seed |-> seed]
         IN  IF ~data.has_x
             THEN Return(base @@ [featureless |-> TRUE,
                                  node_embeddings |-> <<data.num_nodes, args.hidden_dim>>])
             ELSE Return(base)

DistMultDecoder_init(num_relations, hidden_channels, seed) ==
    IF num_relations.kind # "int" \/ hidden_channels.kind # "int"
    THEN Raise("TypeError")
    ELSE Return([cls |-> "DistMultDecoder", training |-> TRUE,
                 rel_emb |-> <<num_relations.n, hidden_channels.n>>, seed |-> seed])

HetDistMultDecoder_init(num_relations, hidden_channels, seed) ==
    IF num_relations.kind # "int" \/ hidden_channels.kind # "int"
    THEN Raise("TypeError")
    ELSE Return([cls |-> "HetDistMultDecoder", training |-> TRUE,
                 rel_emb |-> <<hidden_channels.n, num_relations.n + 1>>,
                 num_relations |-> num_relations.n, seed |-> seed])

\* number of positional parameters of each __init__, self excluded
Arity(cls) ==
    CASE cls = "LinearClassifier" -> 1
      [] cls = "InnerProductDecoder" -> 1
      [] cls = "RGCNEncoder" -> 3
      [] cls = "MLPEncoder" -> 2
      [] cls = "DistMultDecoder" -> 2
      [] cls = "HetDistMultDecoder" -> 2

\* the call cls(*argv)
New(cls, argv, seed) ==
    IF Len(argv) # Arity(cls) THEN Raise("TypeError")
    ELSE CASE cls = "LinearClassifier" -> LinearClassifier_init(argv[1], seed)
           [] cls = "InnerProductDecoder" -> InnerProductDecoder_init(argv[1], seed)
           [] cls = "RGCNEncoder" -> RGCNEncoder_init(argv[1], argv[2], argv[3], seed)
           [] cls = "MLPEncoder" -> MLPEncoder_init(argv[1], argv[2], seed)
           [] cls = "DistMultDecoder" -> DistMultDecoder_init(argv[1], argv[2], seed)
           [] cls = "HetDistMultDecoder" -> HetDistMultDecoder_init(argv[1], argv[2], seed)

(***************************************************************************)
(* The namespace of module "model" and get_model.                           *)
(***************************************************************************)
LocalClasses == {"LinearClassifier", "InnerProductDecoder", "RGCNEncoder",
                 "MLPEncoder", "DistMultDecoder", "HetDistMultDecoder"}
ImportedModules == {"importlib", "inspect", "sys", "torch", "nn", "F", "pyg",
                    "torch_geometric"}
ImportedClasses == {"GCNConv", "RGCNConv", "Linear", "Parameter",
                    "GraphConvolution", "GAE"}
LocalFunctions == {"get_model"}
ModuleAttributes == LocalClasses \cup ImportedModules \cup ImportedClasses
                        \cup LocalFunctions
UnknownNames == {"GCNEncoder", "VGAE"}
ModelNames == ModuleAttributes \cup UnknownNames

\* inspect.getmembers(..., isclass and defined in this module), names only
ClassesOfModule == {n \in ModuleAttributes : n \in LocalClasses}

\* what a call of a class imported from a library may do with (args, data)
ExternalOutcomes == {"ok", "TypeError"}

\* get_model(args, data): [status, obj, msg, called]; called is the attribute
\* that was called with (args, data), "" if none was.
get_model(args, data, seed, ext) ==
    LET msg == [name |-> args.model, choices |-> ClassesOfModule]
    IN  IF args.model \notin ModuleAttributes
        THEN Raise("NotImplementedError") @@ [msg |-> msg, called |-> ""]
        ELSE LET r == IF args.model \in LocalClasses
                          THEN New(args.model, <<args, data>>, seed)
                      ELSE IF args.model \in ImportedModules
                          THEN Raise("TypeError")
                      ELSE IF args.model \in LocalFunctions
                          THEN Raise("RecursionError")
                      ELSE IF ext = "ok" THEN Return([cls |-> args.model])
                      ELSE Raise(ext)
             IN  r @@ [msg |-> msg, called |-> args.model]

(***************************************************************************)
(* Tensor operations of the library, as the forward passes use them.        *)
(***************************************************************************)
RngSeeds == 0..1    \* state of the random generator when forward is called

\* the generator is consulted only by a dropout call with 0 < p < 1
RngFor(p) == IF p \in {0, 10} THEN {0} ELSE RngSeeds

\* the Bernoulli mask of the dropout call number `site`, drawn from rng
Kept(rng, site, idx) == (rng + site + Sum(idx, Len(idx))) % 2 = 0

\* F.dropout(t, p, training): p in tenths; survivors are scaled by 1/(1-p)
dropout(t, p, training, rng, site) ==
    IF ~training \/ p = 0 THEN t
    ELSE IF p = 10 THEN Tensor(t.shape, [idx \in Indices(t.shape) |-> 0])
    ELSE Tensor(t.shape, [idx \in Indices(t.shape) |-> IF Kept(rng, site, idx)
                                      THEN (t.v[idx] * 10) \div (10 - p)
                                      ELSE 0])

Step(f) == [f |-> f]
DropoutStep(p, training) == [f |-> "dropout", p |-> p, training |-> training]

\* a call of a sub-module, with the steps it performed
Call(f, steps) == [f |-> f, steps |-> steps]

\* the steps of a trace, those of its sub-module calls included
RECURSIVE Steps(_)
Steps(tr) ==
    IF tr = <<>> THEN <<>>
    ELSE (IF "steps" \in DOMAIN Head(tr) THEN Head(tr).steps ELSE <<Head(tr)>>)
         \o Steps(Tail(tr))

Names(tr) == [i \in DOMAIN tr |-> tr[i].f]

\* a dropout call that changes its input
Active(step) == step.f = "dropout" /\ step.training /\ step.p > 0

\* torch.mm(a, b.t()) for 2-D a, b with equal width
mm_t(a, b) ==
    Tensor(<<a.shape[1], b.shape[1]>>,
           [idx \in Indices(<<a.shape[1], b.shape[1]>>) |->
                Sum([k \in 1..a.shape[2] |-> a.v[<<idx[1], k>>] * b.v[<<idx[2], k>>]],
                    a.shape[2])])

\* torch.matmul(a, w) for 2-D a (n x d) and w (d x m)
matmul(a, w) ==
    Tensor(<<a.shape[1], w.shape[2]>>,
           [idx \in Indices(<<a.shape[1], w.shape[2]>>) |->
                Sum([k \in 1..a.shape[2] |-> a.v[<<idx[1], k>>] * w.v[<<k, idx[2]>>]],
                    a.shape[2])])

\* t.unsqueeze(2).repeat(1, 1, n) for 2-D t
unsqueeze_repeat(t, n) ==
    Tensor(t.shape \o <<n>>, [idx \in Indices(t.shape \o <<n>>) |-> t.v[<<idx[1], idx[2]>>]])

\* a Linear layer (lazy in_features = last dimension of t) with the
\* parameters that `seed` initialised
Linear(seed, layer, out_features, t) ==
    LET n == Last(t.shape)
    IN  Tensor(Front(t.shape) \o <<out_features>>,
               [idx \in Indices(Front(t.shape) \o <<out_features>>) |->
                   Bias(seed, layer, Last(idx))
                   + Sum([k \in 1..n |-> Weight(seed, layer, Last(idx), k)
                                           * t.v[Front(idx) \o <<k>>]], n)])

\* rows idx[1], idx[2], ... of a 2-D tensor: t[ids]
Gather(t, ids) ==
    Tensor(<<Len(ids), t.shape[2]>>,
           [idx \in Indices(<<Len(ids), t.shape[2]>>) |-> t.v[<<ids[idx[1]], idx[2]>>]])

\* a * b for 2-D tensors with equal row count, columns broadcast
Broadcastable(a, b) ==
    /\ a.shape[1] = b.shape[1]
    /\ (a.shape[2] = b.shape[2] \/ a.shape[2] = 1 \/ b.shape[2] = 1)

Mul(a, b) ==
    Tensor(<<a.shape[1], Max(a.shape[2], b.shape[2])>>,
           [idx \in Indices(<<a.shape[1], Max(a.shape[2], b.shape[2])>>) |->
                a.v[<<idx[1], IF a.shape[2] = 1 THEN 1 ELSE idx[2]>>]
                * b.v[<<idx[1], IF b.shape[2] = 1 THEN 1 ELSE idx[2]>>]])

\* torch.sum(t, dim=1) for 2-D t
SumDim1(t) ==
    Tensor(<<t.shape[1]>>,
           [idx \in Indices(<<t.shape[1]>>) |->
                Sum([k \in 1..t.shape[2] |-> t.v[<<idx[1], k>>]], t.shape[2])])

\* torch.cat([a, b]) along dimension 0
cat(a, b) ==
    Tensor(<<a.shape[1] + b.shape[1], a.shape[2]>>,
           [idx \in Indices(<<a.shape[1] + b.shape[1], a.shape[2]>>) |->
                IF idx[1] <= a.shape[1] THEN a.v[idx]
                ELSE b.v[<<idx[1] - a.shape[1], idx[2]>>]])

\* a parameter tensor of the given 2-D shape, as `seed` initialised it
Param(seed, shape) == Tensor(shape, [idx \in Indices(shape) |-> Weight(seed, 0, idx[1], idx[2])])

(***************************************************************************)
(* Forward passes.  Each gives [status, out, trace] (and what a claim needs *)
(* of the intermediate values).                                             *)
(***************************************************************************)
Fail(exc) == [status |-> exc, out |-> NoTensor, trace |-> <<>>]

\* LinearClassifier.forward(z): F.dropout is called without training=...,
\* whose default is True.
LinearClassifier_forward(self, z, rng) ==
    LET h1 == relu(Linear(self.seed, 1, self.hidden_dim, z))
        d1 == dropout(h1, self.dropout, TRUE, rng, 2)
        h2 == relu(Linear(self.seed, 2, self.hidden_dim, d1))
        d2 == dropout(h2, self.dropout, TRUE, rng, 3)
        h3 == Linear(self.seed, 3, self.num_classes, d2)
    IN  [status |-> "ok", out |-> h3,
         trace |-> <<Step("linear"), Step("relu"), DropoutStep(self.dropout, TRUE),
                     Step("linear"), Step("relu"), DropoutStep(self.dropout, TRUE),
                     Step("linear")>>]

\* self.act = torch.sigmoid, on a tensor of whole numbers
act(t) == Tensor(t.shape, [idx \in Indices(t.shape) |-> sigmoid(t.v[idx] * Scale)])

\* InnerProductDecoder.forward returning the classifier's logits as they are
InnerProductDecoder_forward_logits(self, z, rng) ==
    LET z1 == dropout(z, self.dropout, self.training, rng, 1)
        prod == mm_t(z1, z1)
        adj == act(prod)
        adj_3D == unsqueeze_repeat(adj, self.num_classes)
        a_hat == LinearClassifier_forward(self.classifier, adj_3D, rng)
    IN  [status |-> "ok", out |-> a_hat.out,
         trace |-> <<DropoutStep(self.dropout, self.training), Step("mm"),
                     Step("sigmoid"), Step("repeat"), Call("classifier", a_hat.trace)>>,
         prod |-> prod, classifier_in |-> adj_3D, a_hat |-> a_hat.out]

\* InnerProductDecoder.forward feeding the raw inner products to the classifier
InnerProductDecoder_forward_noact(self, z, rng) ==
    LET z1 == dropout(z, self.dropout, self.training, rng, 1)
        prod == mm_t(z1, z1)
        adj_3D == unsqueeze_repeat(Tensor(prod.shape, [idx \in Indices(prod.shape) |-> prod.v[idx] * Scale]),
                                   self.num_classes)
        a_hat == LinearClassifier_forward(self.classifier, adj_3D, rng)
    IN  [status |-> "ok", out |-> Sigmoid(a_hat.out),
         trace |-> <<DropoutStep(self.dropout, self.training), Step("mm"),
                     Step("repeat"), Call("classifier", a_hat.trace), Step("sigmoid")>>,
         prod |-> prod, classifier_in |-> adj_3D, a_hat |-> a_hat.out]

\* InnerProductDecoder.forward(z)
InnerProductDecoder_forward(self, z, rng) ==
    LET z1 == dropout(z, self.dropout, self.training, rng, 1)
        prod == mm_t(z1, z1)
        adj == act(prod)
        adj_3D == unsqueeze_repeat(adj, self.num_classes)
        a_hat == LinearClassifier_forward(self.classifier, adj_3D, rng)
    IN  [status |-> "ok", out |-> Sigmoid(a_hat.out),
         trace |-> <<DropoutStep(self.dropout, self.training), Step("mm"),
                     Step("sigmoid"), Step("repeat"), Call("classifier", a_hat.trace),
                     Step("sigmoid")>>,
         prod |-> prod, classifier_in |-> adj_3D, a_hat |-> a_hat.out]

\* RGCNEncoder.forward(batch): the relational convolutions are library
\* kernels; only the shapes and the dropout call are modelled.
RGCNEncoder_forward(self, batch) ==
    IF batch.x_shape[2] # self.in_channels THEN Fail("RuntimeError")
    ELSE [status |-> "ok",
          out |-> [shape |-> <<batch.x_shape[1], self.hidden_channels>>, v |-> <<>>],
          trace |-> <<Step("conv"), Step("relu"),
                      DropoutStep(RGCNDropout, self.training), Step("conv")>>]

\* MLPEncoder.forward(batch)
MLPEncoder_forward(self, batch, rng) ==
    IF "featureless" \notin DOMAIN self THEN Fail("AttributeError")
    ELSE
    LET x  == IF self.featureless
              THEN Gather(Param(self.seed, self.node_embeddings), batch.node_ids)
              ELSE batch.x
        h1 == relu(Linear(self.seed, 1, self.hidden_dim, x))
        d1 == dropout(h1, self.dropout, self.training, rng, 1)
        h2 == relu(Linear(self.seed, 2, self.hidden_dim, d1))
        d2 == dropout(h2, self.dropout, self.training, rng, 2)
        h3 == relu(Linear(self.seed, 3, self.hidden_dim, d2))
    IN  [status |-> "ok", out |-> h3,
         trace |-> <<Step("linear"), Step("relu"),
                     DropoutStep(self.dropout, self.training),
                     Step("linear"), Step("relu"),
                     DropoutStep(self.dropout, self.training),
                     Step("linear"), Step("relu")>>,
         first_in |-> x]

Srcs(edge_index) == [i \in 1..Len(edge_index) |-> edge_index[i][1]]
Dsts(edge_index) == [i \in 1..Len(edge_index) |-> edge_index[i][2]]

\* DistMultDecoder.forward leaving the source embedding out of the product
DistMultDecoder_forward_nosrc(self, z, edge_index, edge_type) ==
    LET z_dst == Gather(z, Dsts(edge_index))
        rel == Gather(Param(self.seed, self.rel_emb), edge_type)
    IN  IF ~Broadcastable(rel, z_dst) THEN Fail("RuntimeError")
        ELSE [status |-> "ok", out |-> SumDim1(Mul(rel, z_dst)),
              trace |-> <<Step("mul"), Step("sum")>>]

\* DistMultDecoder.forward(z, edge_index, edge_type)
DistMultDecoder_forward(self, z, edge_index, edge_type) ==
    LET z_src == Gather(z, Srcs(edge_index))
        z_dst == Gather(z, Dsts(edge_index))
        rel == Gather(Param(self.seed, self.rel_emb), edge_type)
    IN  IF ~Broadcastable(z_src, rel) \/ ~Broadcastable(Mul(z_src, rel), z_dst)
        THEN Fail("RuntimeError")
        ELSE [status |-> "ok", out |-> SumDim1(Mul(Mul(z_src, rel), z_dst)),
              trace |-> <<Step("mul"), Step("mul"), Step("sum")>>]

\* HetDistMultDecoder.forward concatenating the negative scores first
HetDistMultDecoder_forward_negfirst(self, z, batch) ==
    LET rel_emb == Param(self.seed, self.rel_emb)
        scores(edge_index) ==
            matmul(Mul(Gather(z, Srcs(edge_index)), Gather(z, Dsts(edge_index))),
                   rel_emb)
        pos_out == scores(batch.pos_edge_index)
    IN  IF z.shape[2] # self.rel_emb[1] THEN Fail("RuntimeError")
        ELSE IF "neg_edge_index" \in DOMAIN batch
        THEN [status |-> "ok", out |-> cat(scores(batch.neg_edge_index), pos_out),
              trace |-> <<Step("mul"), Step("matmul"), Step("mul"), Step("matmul"),
                          Step("cat")>>]
        ELSE [status |-> "ok", out |-> pos_out,
              trace |-> <<Step("mul"), Step("matmul")>>]

\* HetDistMultDecoder.forward(z, batch)
HetDistMultDecoder_forward(self, z, batch) ==
    LET rel_emb == Param(self.seed, self.rel_emb)
        scores(edge_index) ==
            matmul(Mul(Gather(z, Srcs(edge_index)), Gather(z, Dsts(edge_index))),
                   rel_emb)
        pos_out == scores(batch.pos_edge_index)
    IN  IF z.shape[2] # self.rel_emb[1] THEN Fail("RuntimeError")
        ELSE IF "neg_edge_index" \in DOMAIN batch
        THEN [status |-> "ok", out |-> cat(pos_out, scores(batch.neg_edge_index)),
              trace |-> <<Step("mul"), Step("matmul"), Step("mul"), Step("matmul"),
                          Step("cat")>>]
        ELSE [status |-> "ok", out |-> pos_out,
              trace |-> <<Step("mul"), Step("matmul")>>]

(***************************************************************************)
(* loss_function (src/gae/optimizer.py).  preds, mu and logvar are in units *)
(* of 1/Scale, labels are 0/1, norm and pos_weight are whole numbers; the   *)
(* loss is in units of 1/Scale.                                             *)
(***************************************************************************)
\* one element of F.binary_cross_entropy_with_logits(x, y, pos_weight=pw):
\* (1 - y) * x + (1 + (pw - 1) * y) * (log1p(exp(-|x|)) + max(-x, 0))
bce_with_logits(x, y, pw) ==
    (1 - y) * x + (1 + (pw - 1) * y) * (log1p_exp_neg(Abs(x)) + Max(-x, 0))

SumAll(t) ==
    LET ids == Indices(t.shape)
        RECURSIVE Go(_)
        Go(S) == IF S = {} THEN 0
                 ELSE LET i == CHOOSE i \in S : TRUE IN t.v[i] + Go(S \ {i})
    IN  Go(ids)

\* torch.mean: the sum over the number of elements
mean(t) == SumAll(t) \div Cardinality(Indices(t.shape))

\* the term without the square of exp(logvar)
KLTerm_nopow(mu, logvar) == Scale * Scale + 2 * Scale * logvar - mu * mu - Scale * exp(logvar)

\* 1 + 2 * logvar - mu.pow(2) - logvar.exp().pow(2), in units of 1/Scale^2
KLTerm(mu, logvar) == Scale * Scale + 2 * Scale * logvar - mu * mu - exp(logvar) * exp(logvar)

\* KLD = -0.5 / n_nodes * torch.mean(torch.sum(..., 1)), in units of 1/Scale
KLD(mu, logvar, n_nodes) ==
    LET terms == Tensor(mu.shape, [idx \in Indices(mu.shape) |-> KLTerm(mu.v[idx], logvar.v[idx])])
    IN  (-SumAll(SumDim1(terms))) \div (2 * n_nodes * mu.shape[1] * Scale)

\* loss_function repeating the labels over as many channels as preds has
loss_function_anychannels(preds, labels, mu, logvar, n_nodes, norm, pos_weight) ==
    LET labels3 == unsqueeze_repeat(labels, Last(preds.shape))
        cost == norm * mean(Tensor(preds.shape,
                    [idx \in Indices(preds.shape) |-> bce_with_logits(preds.v[idx], labels3.v[idx], pos_weight)]))
        kld == KLD(mu, logvar, n_nodes)
    IN  IF preds.shape # labels3.shape
        THEN [status |-> "ValueError", out |-> 0, cost |-> 0, KLD |-> 0]
        ELSE [status |-> "ok", out |-> cost + kld, cost |-> cost, KLD |-> kld]

loss_function(preds, labels, mu, logvar, n_nodes, norm, pos_weight) ==
    LET labels3 == unsqueeze_repeat(labels, LabelChannels)
        cost == norm * mean(Tensor(preds.shape,
                    [idx \in Indices(preds.shape) |-> bce_with_logits(preds.v[idx], labels3.v[idx], pos_weight)]))
        kld == KLD(mu, logvar, n_nodes)
    IN  IF preds.shape # labels3.shape
        THEN [status |-> "ValueError", out |-> 0, cost |-> 0, KLD |-> 0]
        ELSE [status |-> "ok", out |-> cost + kld, cost |-> cost, KLD |-> kld]

(***************************************************************************)
(* Inputs.                                                                  *)
(***************************************************************************)
ZSeeds == 0..2
\* an n x d tensor of whole numbers in -3..3
ZTensor(n, d, s) ==
    Tensor(<<n, d>>, [idx \in Indices(<<n, d>>) |-> ((s + 3 * idx[1] + 2 * s * idx[2] + idx[1] * idx[2]) % 7) - 3])

Embeddings == {ZTensor(n, d, s) : n \in 1..MaxNodes, d \in 1..MaxDim, s \in ZSeeds}

\* edge lists over nodes 1..n: the first edge is free, every even edge is the
\* reverse of the edge before it, every odd one shifts it by one node
RECURSIVE EdgeList(_, _, _)
EdgeList(n, first, e) ==
    IF e = 0 THEN <<>>
    ELSE IF e = 1 THEN <<first>>
    ELSE LET front == EdgeList(n, first, e - 1)
             prev == front[e - 1]
         IN  Append(front, IF e % 2 = 0 THEN <<prev[2], prev[1]>>
                           ELSE <<(prev[1] % n) + 1, prev[2]>>)

EdgeIndexes(n) ==
    {EdgeList(n, first, e) : first \in (1..n) \X (1..n), e \in 0..MaxEdges}

\* edge types: an edge and its reverse share a type
EdgeTypes(e, r) == {[i \in 1..e |-> ((t + (i - 1) \div 2) % r) + 1] : t \in 1..r}

ArgsSet(name) ==
    {PyArgs(name, h, p, c) : h \in 1..MaxDim, p \in DropoutRates, c \in ClassCounts}
DataSet == {PyData(has_x, n) : has_x \in BOOLEAN, n \in 1..MaxNodes}

\* the argument lists a caller who knows the signatures passes
ArgvFor(cls) ==
    CASE cls \in {"LinearClassifier", "InnerProductDecoder"} ->
            {<<a>> : a \in ArgsSet(cls)}
      [] cls = "MLPEncoder" ->
            {<<a, d>> : a \in {PyArgs(cls, h, p, 1) : h \in 1..MaxDim, p \in DropoutRates},
                        d \in DataSet}
      [] cls = "RGCNEncoder" ->
            {<<PyInt(n), PyInt(RGCNNumBlocks * h), PyInt(r)>> :
                n \in 1..MaxNodes, h \in 1..MaxDim, r \in 1..MaxRelations}
      [] cls \in {"DistMultDecoder", "HetDistMultDecoder"} ->
            {<<PyInt(r), PyInt(h)>> : r \in 1..MaxRelations, h \in 1..MaxDim}

(***************************************************************************)
(* The state machine: a caller that builds a model, switches its mode and   *)
(* calls forward.                                                           *)
(***************************************************************************)
\* The caller builds one model.  No exception is handled anywhere, so a call
\* that raises ends the run.  forward leaves the module as it was, so the
\* caller is ready for the next forward once it has looked at the result and
\* switched (or re-set) the mode.
ForwardOps == {"LinearClassifier.forward", "InnerProductDecoder.forward",
               "RGCNEncoder.forward", "MLPEncoder.forward",
               "DistMultDecoder.forward", "HetDistMultDecoder.forward"}
Running == status = "ok"
Ready == Running /\ op \notin ForwardOps \cup {"loss_function"}

Init ==
    /\ model = NoModel
    /\ op = "none"
    /\ inp = <<>>
    /\ status = "ok"
    /\ out = NoTensor
    /\ trace = <<>>

\* model = get_model(args, data)
GetModel ==
    /\ Running
    /\ model = NoModel
    /\ \E name \in ModelNames, data \in DataSet, seed \in Seeds, ext \in ExternalOutcomes :
      \E args \in {PyArgs(name, h, p, 1) : h \in 1..MaxDim, p \in DropoutRates} :
        LET r == get_model(args, data, seed, ext)
        IN  /\ op' = "get_model"
            /\ inp' = [args |-> args, data |-> data]
            /\ status' = r.status
            /\ out' = [msg |-> r.msg, called |-> r.called]
            /\ model' = IF r.status = "ok" THEN r.obj ELSE model
            /\ trace' = <<>>

\* model = cls(...), called directly
ConstructOf(classes) ==
    /\ Running
    /\ model = NoModel
    /\ \E cls \in classes, seed \in Seeds :
      \E argv \in ArgvFor(cls) :
        LET r == New(cls, argv, seed)
        IN  /\ op' = "construct"
            /\ inp' = [cls |-> cls, argv |-> argv]
            /\ status' = r.status
            /\ out' = NoTensor
            /\ model' = IF r.status = "ok" THEN r.obj ELSE model
            /\ trace' = <<>>

Construct == ConstructOf(LocalClasses)

\* nn.Module.train(mode): sets training on the module and its children
SetMode(self, mode) ==
    IF "classifier" \in DOMAIN self
    THEN [self EXCEPT !.training = mode, !.classifier.training = mode]
    ELSE [self EXCEPT !.training = mode]

Train ==
    /\ Running
    /\ model.cls \in LocalClasses
    /\ model' = SetMode(model, TRUE)
    /\ op' = "train" /\ inp' = <<>> /\ status' = "ok" /\ out' = NoTensor /\ trace' = <<>>

Eval ==
    /\ Running
    /\ model.cls \in LocalClasses
    /\ model' = SetMode(model, FALSE)
    /\ op' = "eval" /\ inp' = <<>> /\ status' = "ok" /\ out' = NoTensor /\ trace' = <<>>

ForwardLinearClassifier ==
    /\ model.cls = "LinearClassifier"
    /\ Ready
    /\ \E z \in Embeddings, rng \in RngFor(model.dropout) :
         LET r == LinearClassifier_forward(model, z, rng)
         IN  /\ op' = "LinearClassifier.forward"
             /\ inp' = [z |-> z, rng |-> rng]
             /\ status' = r.status /\ out' = r.out /\ trace' = r.trace
    /\ UNCHANGED model

ForwardInnerProductDecoder ==
    /\ model.cls = "InnerProductDecoder"
    /\ Ready
    /\ \E z \in Embeddings, rng \in RngFor(model.dropout) :
         LET r == InnerProductDecoder_forward(model, z, rng)
         IN  /\ op' = "InnerProductDecoder.forward"
             /\ inp' = [z |-> z, rng |-> rng, prod |-> r.prod,
                        classifier_in |-> r.classifier_in, a_hat |-> r.a_hat]
             /\ status' = r.status /\ out' = r.out /\ trace' = r.trace
    /\ UNCHANGED model

ForwardRGCNEncoder ==
    /\ model.cls = "RGCNEncoder"
    /\ Ready
    /\ \E n \in 1..MaxNodes, f \in {RGCNInChannels, MaxDim} :
         LET batch == [x_shape |-> <<n, f>>]
             r == RGCNEncoder_forward(model, batch)
         IN  /\ op' = "RGCNEncoder.forward"
             /\ inp' = [batch |-> batch]
             /\ status' = r.status /\ out' = r.out /\ trace' = r.trace
    /\ UNCHANGED model

ForwardMLPEncoder ==
    /\ model.cls = "MLPEncoder"
    /\ Ready
    /\ \E x \in Embeddings, rng \in RngFor(model.dropout) :
       \E node_ids \in [1..x.shape[1] -> 1..MaxNodes] :
         LET batch == [x |-> x, node_ids |-> node_ids]
             r == MLPEncoder_forward(model, batch, rng)
         IN  /\ "node_embeddings" \in DOMAIN model
                    => \A i \in DOMAIN node_ids : node_ids[i] <= model.node_embeddings[1]
             /\ op' = "MLPEncoder.forward"
             /\ inp' = [batch |-> batch, rng |-> rng,
                        first_in |-> IF r.status = "ok" THEN r.first_in ELSE NoTensor]
             /\ status' = r.status /\ out' = r.out /\ trace' = r.trace
    /\ UNCHANGED model

ForwardDistMultDecoder ==
    /\ model.cls = "DistMultDecoder"
    /\ Ready
    /\ \E z \in Embeddings :
       \E edge_index \in EdgeIndexes(z.shape[1]) :
       \E edge_type \in EdgeTypes(Len(edge_index), model.rel_emb[1]) :
         LET r == DistMultDecoder_forward(model, z, edge_index, edge_type)
         IN  /\ op' = "DistMultDecoder.forward"
             /\ inp' = [z |-> z, edge_index |-> edge_index, edge_type |-> edge_type]
             /\ status' = r.status /\ out' = r.out /\ trace' = r.trace
    /\ UNCHANGED model

ForwardHetDistMultDecoder ==
    /\ model.cls = "HetDistMultDecoder"
    /\ Ready
    /\ \E z \in Embeddings :
       \E pos \in EdgeIndexes(z.shape[1]), has_neg \in BOOLEAN :
       \E neg \in IF has_neg
                 THEN {EdgeList(z.shape[1], <<z.shape[1], 1>>, e) : e \in 0..MaxEdges}
                 ELSE {<<>>} :
         LET batch == IF has_neg
                      THEN [pos_edge_index |-> pos, neg_edge_index |-> neg]
                      ELSE [pos_edge_index |-> pos]
             r == HetDistMultDecoder_forward(model, z, batch)
         IN  /\ op' = "HetDistMultDecoder.forward"
             /\ inp' = [z |-> z, batch |-> batch]
             /\ status' = r.status /\ out' = r.out /\ trace' = r.trace
    /\ UNCHANGED model

\* Inputs of loss_function other than preds.
LatentSeeds == 0..2
Labels(n, s) == Tensor(<<n, n>>, [idx \in Indices(<<n, n>>) |-> IF s = 0 THEN 0 ELSE (idx[1] + idx[2] + s) % 2])
\* seed 0 is the all-zero tensor
Mu(n, d, s) ==
    Tensor(<<n, d>>, [idx \in Indices(<<n, d>>) |-> IF s = 0 THEN 0
                                  ELSE (((s * (idx[1] + 2 * idx[2])) % 5) - 2) * 5])
Logvar(n, d, s) ==
    Tensor(<<n, d>>, [idx \in Indices(<<n, d>>) |-> IF s = 0 THEN 0
                                  ELSE (((s * (2 * idx[1] + idx[2])) % 7) - 3) * 4])
\* logits of shape n x n x c
Logits(n, c, s) ==
    Tensor(<<n, n, c>>, [idx \in Indices(<<n, n, c>>) |-> IF s = 0 THEN 0
                                     ELSE (((s * idx[1] + 2 * idx[2] + 3 * idx[3]) % 9) - 4) * 6])

\* loss = loss_function(model(z), labels, mu, logvar, n_nodes, norm, pos_weight)
\* on the predictions the inner-product decoder has just returned
Loss ==
    /\ Running
    /\ op = "InnerProductDecoder.forward"
    /\ \E ls \in 0..1, pos_weight \in 1..2 :
         LET n == out.shape[1]
             args == [preds |-> out, labels |-> Labels(n, ls),
                      mu |-> Mu(n, 1, 1), logvar |-> Logvar(n, 1, 1),
                      n_nodes |-> n, norm |-> 1, pos_weight |-> pos_weight]
             r == loss_function(args.preds, args.labels, args.mu, args.logvar,
                                args.n_nodes, args.norm, args.pos_weight)
         IN  /\ op' = "loss_function"
             /\ inp' = args
             /\ status' = r.status
             /\ out' = IF r.status = "ok"
                       THEN [loss |-> r.out, cost |-> r.cost, KLD |-> r.KLD]
                       ELSE NoTensor
             /\ trace' = <<>>
    /\ UNCHANGED model

Next ==
    \/ GetModel
    \/ Construct
    \/ Train
    \/ Eval
    \/ ForwardLinearClassifier
    \/ ForwardInnerProductDecoder
    \/ ForwardRGCNEncoder
    \/ ForwardMLPEncoder
    \/ ForwardDistMultDecoder
    \/ ForwardHetDistMultDecoder
    \/ Loss

Spec == Init /\ [][Next]_vars

(***************************************************************************)
(* The same caller, restricted to one class.                                *)
(***************************************************************************)
NextInnerProduct ==
    \/ ConstructOf({"InnerProductDecoder"})
    \/ Train
    \/ Eval
    \/ ForwardInnerProductDecoder
    \/ Loss

SpecInnerProduct == Init /\ [][NextInnerProduct]_vars

NextDistMult ==
    \/ ConstructOf({"DistMultDecoder"})
    \/ ForwardDistMultDecoder

SpecDistMult == Init /\ [][NextDistMult]_vars

NextHetDistMult ==
    \/ ConstructOf({"HetDistMultDecoder"})
    \/ ForwardHetDistMultDecoder

SpecHetDistMult == Init /\ [][NextHetDistMult]_vars

(***************************************************************************)
(* loss_function as a pure function: the arguments are drawn at the start,  *)
(* one call applies it.                                                     *)
(***************************************************************************)
LossInputs ==
    {[preds |-> Logits(n, c, ps), labels |-> Labels(n, ls),
      mu |-> Mu(rows, d, ms), logvar |-> Logvar(rows, d, vs),
      n_nodes |-> n_nodes, norm |-> norm, pos_weight |-> pos_weight] :
        n \in 1..MaxNodes, c \in {LabelChannels - 1, LabelChannels}, ps \in 0..1,
        ls \in 0..1, rows \in 1..MaxNodes, d \in 1..MaxDim,
        ms \in LatentSeeds, vs \in LatentSeeds,
        n_nodes \in 1..MaxNodes, norm \in 1..2, pos_weight \in {1, 3}}

InitLoss ==
    /\ model = NoModel
    /\ op = "none"
    /\ inp \in LossInputs
    /\ status = "ok"
    /\ out = NoTensor
    /\ trace = <<>>

LossCall ==
    /\ op = "none"
    /\ LET r == loss_function(inp.preds, inp.labels, inp.mu, inp.logvar,
                              inp.n_nodes, inp.norm, inp.pos_weight)
       IN  /\ op' = "loss_function"
           /\ status' = r.status
           /\ out' = IF r.status = "ok"
                     THEN [loss |-> r.out, cost |-> r.cost, KLD |-> r.KLD]
                     ELSE NoTensor
    /\ UNCHANGED <<model, inp, trace>>

SpecLoss == InitLoss /\ [][LossCall]_vars

(***************************************************************************)
(* Properties.                                                              *)
(***************************************************************************)
Called(f) == op = f /\ status = "ok"

\* C1: get_model with args.model naming a class defined in the module returns
\* an instance of exactly that class.
C1_GetModelReturnsTheNamedClass ==
    (op = "get_model" /\ inp.args.model \in LocalClasses)
        => (status = "ok" /\ model.cls = inp.args.model)

\* C2: get_model with args.model not naming a class defined in the module
\* (other module attributes included) raises NotImplementedError listing the
\* classes of the module, returns no object and calls nothing.
C2_OtherNamesRaiseNotImplemented ==
    (op = "get_model" /\ inp.args.model \notin LocalClasses)
        => /\ status = "NotImplementedError"
           /\ out.msg.choices = LocalClasses
           /\ out.called = ""
           /\ model = NoModel

\* C3: a forward pass made in evaluation mode applies no dropout at any step.
C3_NoDropoutInEvaluationMode ==
    (op \in ForwardOps /\ status = "ok" /\ ~model.training)
        => \A i \in DOMAIN Steps(trace) : ~Active(Steps(trace)[i])

\* C4: MLPEncoder.forward returns an embedding matrix in both construction
\* cases: built without features it feeds node_embeddings[batch.node_ids] to
\* the first layer, built with features it feeds batch.x.
C4_MLPForwardReturnsInBothCases ==
    op = "MLPEncoder.forward"
        => /\ status = "ok"
           /\ out.shape = <<Len(inp.batch.node_ids), model.hidden_dim>>
           /\ inp.first_in = IF "node_embeddings" \in DOMAIN model
                             THEN Gather(Param(model.seed, model.node_embeddings),
                                         inp.batch.node_ids)
                             ELSE inp.batch.x

\* pairs of positions of an edge list holding an edge and its reverse, under
\* the same relation type
ReversePairs(edge_index, edge_type) ==
    {p \in (DOMAIN edge_index) \X (DOMAIN edge_index) :
        /\ edge_index[p[1]] = <<edge_index[p[2]][2], edge_index[p[2]][1]>>
        /\ edge_type[p[1]] = edge_type[p[2]]}

Row(t, i) == [k \in 1..t.shape[2] |-> t.v[<<i, k>>]]

\* C5 (as stated): the scores DistMultDecoder.forward gives to (a->b) and
\* (b->a) under the same relation differ whenever the embeddings of a and b
\* differ and the score is not zero.
C5_ReverseEdgeScoresDiffer ==
    Called("DistMultDecoder.forward")
        => \A p \in ReversePairs(inp.edge_index, inp.edge_type) :
              LET e == inp.edge_index[p[1]]
              IN  (Row(inp.z, e[1]) # Row(inp.z, e[2]) /\ out.v[<<p[1]>>] # 0)
                      => out.v[<<p[1]>>] # out.v[<<p[2]>>]

\* C5 (amended): DistMultDecoder.forward gives (a->b) and (b->a) the same
\* score under the same relation type, whatever the relation embedding.
C5_DistMultIsSymmetric ==
    Called("DistMultDecoder.forward")
        => \A p \in ReversePairs(inp.edge_index, inp.edge_type) :
              out.v[<<p[1]>>] = out.v[<<p[2]>>]

\* C5 witness: an edge and its reverse between nodes with different
\* embeddings were scored, and the score is not zero.
C5_Witness ==
    /\ Called("DistMultDecoder.forward")
    /\ \E p \in ReversePairs(inp.edge_index, inp.edge_type) :
          LET e == inp.edge_index[p[1]]
          IN  /\ e[1] # e[2]
              /\ Row(inp.z, e[1]) # Row(inp.z, e[2])
              /\ out.v[<<p[1]>>] # 0

\* the score of one edge under relation column c: sum_k z[a,k] z[b,k] rel_emb[k,c]
EdgeScore(self, z, e, c) ==
    Sum([k \in 1..z.shape[2] |->
            z.v[<<e[1], k>>] * z.v[<<e[2], k>>] * Weight(self.seed, 0, k, c)],
        z.shape[2])

NegEdges(batch) ==
    IF "neg_edge_index" \in DOMAIN batch THEN batch.neg_edge_index ELSE <<>>

\* C6: the score matrix of a HetDistMultDecoder built with num_relations = R
\* has R + 1 columns and one row per positive edge, followed by one row per
\* negative edge when the batch has neg_edge_index.
C6_HetDistMultScoreMatrix ==
    Called("HetDistMultDecoder.forward")
        => LET pos == inp.batch.pos_edge_index
               neg == NegEdges(inp.batch)
               cols == model.num_relations + 1
           IN  /\ out.shape = <<Len(pos) + Len(neg), cols>>
               /\ \A i \in DOMAIN pos, c \in 1..cols :
                     out.v[<<i, c>>] = EdgeScore(model, inp.z, pos[i], c)
               /\ \A j \in DOMAIN neg, c \in 1..cols :
                     out.v[<<Len(pos) + j, c>>] = EdgeScore(model, inp.z, neg[j], c)

\* C6 witness: positive and negative edges were scored, and the first
\* positive row differs from the first negative row.
C6_Witness ==
    /\ Called("HetDistMultDecoder.forward")
    /\ "neg_edge_index" \in DOMAIN inp.batch
    /\ Len(inp.batch.pos_edge_index) > 0
    /\ Len(inp.batch.neg_edge_index) > 0
    /\ out.shape[1] = Len(inp.batch.pos_edge_index) + Len(inp.batch.neg_edge_index)
    /\ Row(out, 1) # Row(out, Len(inp.batch.pos_edge_index) + 1)

\* C7: every entry of the output of InnerProductDecoder.forward lies in
\* [0, 1], in training and in evaluation mode.
C7_OutputInUnitInterval ==
    Called("InnerProductDecoder.forward")
        => \A idx \in DOMAIN out.v : 0 <= out.v[idx] /\ out.v[idx] <= Scale

\* C7 witness: in evaluation mode the classifier's logits left [0, 1] on both
\* sides and forward returned.
C7_Witness ==
    /\ Called("InnerProductDecoder.forward")
    /\ ~model.training
    /\ \E idx \in DOMAIN inp.a_hat.v : inp.a_hat.v[idx] > Scale
    /\ \E idx \in DOMAIN inp.a_hat.v : inp.a_hat.v[idx] < 0

AllZero(t) == \A idx \in DOMAIN t.v : t.v[idx] = 0

\* C8: the KL term is never negative; with mu = 0 and logvar = 0 it is zero,
\* so the loss is norm times the weighted cross-entropy (ln 2 per element for
\* all-zero logits and labels).
C8_KLTermZeroAtStandardNormal ==
    Called("loss_function")
        => /\ out.KLD >= 0
           /\ (AllZero(inp.mu) /\ AllZero(inp.logvar))
                 => /\ out.KLD = 0
                    /\ out.loss = out.cost
                    /\ (AllZero(inp.preds) /\ AllZero(inp.labels))
                          => out.loss = inp.norm * log1p_exp_neg(0)

\* C8 witness: a loss was computed for mu = 0, logvar = 0 and more than one
\* node, on logits that are not all zero.
C8_Witness ==
    /\ Called("loss_function")
    /\ AllZero(inp.mu) /\ AllZero(inp.logvar)
    /\ inp.n_nodes > 1
    /\ ~AllZero(inp.preds)
    /\ out.loss > 0

\* the top-level steps of the inner-product decoder, reshaping left out
Computation(tr) == SelectSeq(Names(tr), LAMBDA f : f # "repeat")

\* C9 (as stated): forward is dropout, inner product, classifier head on the
\* inner products, one sigmoid.
C9_SingleSigmoid ==
    Called("InnerProductDecoder.forward")
        => /\ Computation(trace) = <<"dropout", "mm", "classifier", "sigmoid">>
           /\ \A idx \in DOMAIN inp.classifier_in.v :
                 inp.classifier_in.v[idx] = Scale * inp.prod.v[<<idx[1], idx[2]>>]

\* C9 (amended): forward is dropout, inner product, a sigmoid on the inner
\* products, classifier head on the result, a second sigmoid.
C9_SigmoidBeforeAndAfterClassifier ==
    Called("InnerProductDecoder.forward")
        => /\ Computation(trace) = <<"dropout", "mm", "sigmoid", "classifier", "sigmoid">>
           /\ inp.prod.shape = <<inp.z.shape[1], inp.z.shape[1]>>
           /\ \A idx \in DOMAIN inp.classifier_in.v :
                 inp.classifier_in.v[idx] = sigmoid(Scale * inp.prod.v[<<idx[1], idx[2]>>])
           /\ \A idx \in DOMAIN out.v : out.v[idx] = sigmoid(inp.a_hat.v[idx])

\* C9 witness: forward ran on embeddings with an inner product outside [0, 1].
C9_Witness ==
    /\ Called("InnerProductDecoder.forward")
    /\ \E idx \in DOMAIN inp.prod.v : inp.prod.v[idx] > 1
    /\ \E idx \in DOMAIN inp.classifier_in.v :
          inp.classifier_in.v[idx] # Scale * inp.prod.v[<<idx[1], idx[2]>>]

\* C10: on the predictions of an InnerProductDecoder, loss_function returns a
\* loss exactly when num_classes = 10; otherwise it raises a shape error.
C10_LossOnlyForTenClasses ==
    op = "loss_function"
        => /\ inp.preds.shape = <<inp.labels.shape[1], inp.labels.shape[2], model.num_classes>>
           /\ status = "ok" <=> model.num_classes = 10
           /\ status # "ok" => (status = "ValueError" /\ out = NoTensor)

\* C10 witness: a loss was computed for a decoder with ten classes.
C10_Witness ==
    /\ Called("loss_function")
    /\ model.cls = "InnerProductDecoder"
    /\ model.num_classes = 10
    /\ "loss" \in DOMAIN out

====
